---------------------------- MODULE Spec2Model ----------------------------
(***************************************************************************)
(* A model of the packable crate (src/src/lib.rs): the Packable trait and  *)
(* its implementers (the numeric types, [u8; N] and Flag), the pack! and   *)
(* unpack! macros, and Flag::set / Flag::get.                              *)
(*                                                                         *)
(* A value is a record [type, val]: the type says which impl of Packable   *)
(* is dispatched, the val is an integer (numeric types; f32 and f64 are    *)
(* held as their IEEE bit pattern, which is what to_le_bytes/to_be_bytes   *)
(* emit), a sequence of bytes ([u8; N]) or a record [base] (Flag).         *)
(***************************************************************************)
EXTENDS Integers, Sequences, FiniteSets, TLC

VARIABLES
    pc,            \* position of the running call
    litle_endian,  \* the $le argument of pack!/unpack!, or of the direct call
    xs,            \* pack!: the values $x handed to pack!
    px,            \* pack!: index of the next $x to encode
    temp_vec,      \* pack!: the vector being built
    ys,            \* unpack!: the targets $x handed to unpack!
    orig,          \* unpack!: ghost, the buffer as the caller handed it over
    buffer,        \* unpack!: *$buf
    split_buf,     \* unpack!: the tail returned by split_off
    ux,            \* unpack!: index of the $x being decoded
    consumed,      \* unpack!: ghost, bytes of the fields already decoded
    result,        \* unpack!: what the closure returned
    self,          \* direct call: the Packable value
    packed,        \* direct call: what Packable::pack returned
    data,          \* direct call: the data argument of Packable::unpack
    outcome,       \* direct call: how Packable::unpack ended
    flag,          \* Flag under set/get
    last,          \* Flag: ghost, the value most recently set for each id
    got            \* Flag: what the last get returned, and for which id

vars == <<pc, litle_endian, xs, px, temp_vec, ys, orig, buffer, split_buf, ux,
          consumed, result, self, packed, data, outcome, flag, last, got>>

seqVars == <<xs, px, temp_vec, ys, orig, buffer, split_buf, ux, consumed, result>>
codecVars == <<self, packed, data, outcome>>
flagVars == <<flag, last, got>>

---------------------------------------------------------------------------
(* Bounds of the model. *)

\* most fields handed to one pack!/unpack! call
MaxFields == 2
\* longest buffer a caller hands to unpack! that does not come from pack!
MaxBuf == 4
\* longest tail a caller appends to a packed record
MaxTail == 2
\* largest DIMENSIONS of a [u8; DIMENSIONS] block
MaxDim == 2
\* most bytes a caller leaves beyond size() in a direct Packable::unpack
MaxExtra == 1

(* Program constants. *)

\* Flag.base is a u8: its bits are 0..MaxId
MaxId == 7

---------------------------------------------------------------------------
(* Types: one record per impl of Packable. *)

NumType(n, w, s) == [name |-> n, kind |-> "num", width |-> w, signed |-> s]

U8 == NumType("u8", 1, FALSE)
U16 == NumType("u16", 2, FALSE)
U32 == NumType("u32", 4, FALSE)
U64 == NumType("u64", 8, FALSE)
U128 == NumType("u128", 16, FALSE)
I8 == NumType("i8", 1, TRUE)
I16 == NumType("i16", 2, TRUE)
I32 == NumType("i32", 4, TRUE)
I64 == NumType("i64", 8, TRUE)
I128 == NumType("i128", 16, TRUE)
F32 == NumType("f32", 4, FALSE)
F64 == NumType("f64", 8, FALSE)

NumTypes == {U8, U16, U32, U64, U128, I8, I16, I32, I64, I128, F32, F64}

BlockType(n) == [name |-> "block", kind |-> "block", width |-> n, signed |-> FALSE]

FlagType == [name |-> "Flag", kind |-> "flag", width |-> 1, signed |-> FALSE]

Implementers == NumTypes \cup {BlockType(n) : n \in 0..MaxDim} \cup {FlagType}

Val(t, v) == [type |-> t, val |-> v]

---------------------------------------------------------------------------
(* std: byte conversions, slices and vectors, by what they compute. *)

Reverse(s) == [k \in 1..Len(s) |-> s[Len(s) + 1 - k]]

\* the w bytes of v's two's-complement pattern, least significant first
RECURSIVE to_le_bytes(_, _)
to_le_bytes(v, w) ==
    IF w = 0 THEN <<>> ELSE <<v % 256>> \o to_le_bytes(v \div 256, w - 1)

\* the same bytes, most significant first
RECURSIVE to_be_bytes(_, _)
to_be_bytes(v, w) ==
    IF w = 0 THEN <<>> ELSE Append(to_be_bytes(v \div 256, w - 1), v % 256)

\* the top byte of a signed type carries the sign
TopByte(b, signed) == IF signed /\ b >= 128 THEN b - 256 ELSE b

RECURSIVE from_le_bytes(_, _)
from_le_bytes(b, signed) ==
    IF Len(b) = 1 THEN TopByte(b[1], signed)
    ELSE b[1] + 256 * from_le_bytes(Tail(b), signed)

RECURSIVE HornerBE(_, _)
HornerBE(acc, rest) ==
    IF rest = <<>> THEN acc ELSE HornerBE(acc * 256 + Head(rest), Tail(rest))

from_be_bytes(b, signed) == HornerBE(TopByte(b[1], signed), Tail(b))

\* v[0..n]: panics when n > v.len()
Slice(v, n) ==
    IF n > Len(v) THEN [panic |-> TRUE, s |-> <<>>]
    ELSE [panic |-> FALSE, s |-> SubSeq(v, 1, n)]

\* <[u8; n]>::try_from(slice): Err(TryFromSliceError) unless the lengths agree
try_into(s, n) == IF Len(s) = n THEN "Ok" ELSE "TryFromSliceError"

\* split_off with the halves exchanged: self keeps the tail
SplitOffSwapped(v, at) ==
    IF at > Len(v) THEN [panic |-> TRUE, front |-> v, tail |-> <<>>]
    ELSE [panic |-> FALSE, front |-> SubSeq(v, at + 1, Len(v)),
          tail |-> SubSeq(v, 1, at)]

\* split_off whose tail starts one byte late
SplitOffByOne(v, at) ==
    IF at > Len(v) THEN [panic |-> TRUE, front |-> v, tail |-> <<>>]
    ELSE [panic |-> FALSE, front |-> SubSeq(v, 1, at),
          tail |-> SubSeq(v, at + 2, Len(v))]

\* Vec::split_off(at): self keeps [0, at), the tail [at, len) is returned;
\* panics when at > len
split_off(v, at) ==
    IF at > Len(v) THEN [panic |-> TRUE, front |-> v, tail |-> <<>>]
    ELSE [panic |-> FALSE, front |-> SubSeq(v, 1, at),
          tail |-> SubSeq(v, at + 1, Len(v))]

\* the slice put in front of the vector instead of behind it
PrependSlice(v, s) == s \o v

extend_from_slice(v, s) == v \o s

---------------------------------------------------------------------------
(* impl Packable: pack, size, unpack.  unpack returns how the call ended   *)
(* (Ok, Err with its kind, or Panic) and the value of *self afterwards.    *)

Ok(x) == [status |-> "Ok", kind |-> "none", self |-> x]
Err(k, x) == [status |-> "Err", kind |-> k, self |-> x]
Panic(x) == [status |-> "Panic", kind |-> "none", self |-> x]

\* pack with the byte-order flag inverted
NumPackSwapped(x, le) ==
    IF le THEN to_be_bytes(x.val, x.type.width)
    ELSE to_le_bytes(x.val, x.type.width)

\* impl_packable_numerique!: pack
NumPack(x, le) ==
    IF le THEN to_le_bytes(x.val, x.type.width)
    ELSE to_be_bytes(x.val, x.type.width)

\* impl_packable_numerique!: size
NumSize(x) == x.type.width

\* unpack that reads little-endian whatever the flag says
NumUnpackOneOrder(x, d, le) ==
    LET sl == Slice(d, NumSize(x)) IN
    IF sl.panic THEN Panic(x)
    ELSE IF try_into(sl.s, x.type.width) # "Ok"
    THEN Err("TryFromSliceError", x)
    ELSE Ok(Val(x.type, from_le_bytes(sl.s, x.type.signed)))

\* impl_packable_numerique!: unpack
NumUnpack(x, d, le) ==
    LET sl == Slice(d, NumSize(x)) IN
    IF sl.panic THEN Panic(x)
    ELSE IF try_into(sl.s, x.type.width) # "Ok"
    THEN Err("TryFromSliceError", x)
    ELSE IF le THEN Ok(Val(x.type, from_le_bytes(sl.s, x.type.signed)))
    ELSE Ok(Val(x.type, from_be_bytes(sl.s, x.type.signed)))

\* impl Packable for [u8; DIMENSIONS]
BlockPack(x, le) == x.val

BlockSize(x) == Len(x.val)

BlockUnpack(x, d, le) ==
    LET sl == Slice(d, BlockSize(x)) IN
    IF sl.panic THEN Panic(x) ELSE Ok(Val(x.type, sl.s))

\* impl Packable for Flag: everything goes to self.base, a u8
FlagPack(x, le) == NumPack(Val(U8, x.val.base), le)

FlagSize(x) == NumSize(Val(U8, x.val.base))

\* unpack of a Flag that decodes into a copy of base and drops it
FlagUnpackLost(x, d, le) ==
    LET r == NumUnpack(Val(U8, x.val.base), d, le) IN
    [r EXCEPT !.self = x]

FlagUnpack(x, d, le) ==
    LET r == NumUnpack(Val(U8, x.val.base), d, le) IN
    [r EXCEPT !.self = Val(x.type, [base |-> r.self.val])]

\* Packable::pack, dispatched on the type of the value
pack(x, le) ==
    CASE x.type.kind = "num" -> NumPack(x, le)
      [] x.type.kind = "block" -> BlockPack(x, le)
      [] x.type.kind = "flag" -> FlagPack(x, le)

size(x) ==
    CASE x.type.kind = "num" -> NumSize(x)
      [] x.type.kind = "block" -> BlockSize(x)
      [] x.type.kind = "flag" -> FlagSize(x)

unpack(x, d, le) ==
    CASE x.type.kind = "num" -> NumUnpack(x, d, le)
      [] x.type.kind = "block" -> BlockUnpack(x, d, le)
      [] x.type.kind = "flag" -> FlagUnpack(x, d, le)

---------------------------------------------------------------------------
(* Flag: a u8 with set and get on its bits.  The literal 0x1 is a u8, so   *)
(* the operations are those of u8: |, & and ! on 8 bits.                   *)

RECURSIVE BitAnd(_, _, _)
BitAnd(a, b, n) ==
    IF n = 0 THEN 0
    ELSE (a % 2) * (b % 2) + 2 * BitAnd(a \div 2, b \div 2, n - 1)

RECURSIVE BitOr(_, _, _)
BitOr(a, b, n) ==
    IF n = 0 THEN 0
    ELSE (IF a % 2 = 1 \/ b % 2 = 1 THEN 1 ELSE 0)
         + 2 * BitOr(a \div 2, b \div 2, n - 1)

\* !x on a u8
BitNot(a) == 255 - a

\* 0x1 << id, for the ids a caller may use (0..MaxId)
Shl1(id) == 2 ^ id

\* set whose clearing branch forgets the !
FlagSetNoNot(f, id, value) ==
    IF value THEN [base |-> BitOr(f.base, Shl1(id), 8)]
    ELSE [base |-> BitAnd(f.base, Shl1(id), 8)]

\* Flag::set
FlagSet(f, id, value) ==
    IF value THEN [base |-> BitOr(f.base, Shl1(id), 8)]
    ELSE [base |-> BitAnd(f.base, BitNot(Shl1(id)), 8)]

\* Flag::get
FlagGet(f, id) == BitAnd(f.base, Shl1(id), 8) > 0

\* #[derive(Default)]
FlagDefault == [base |-> 0]

---------------------------------------------------------------------------
(* The values a caller hands over. *)

Candidates ==
    {-16909060, -32768, -129, -128, -42, -1, 0, 1, 42, 127, 128, 255, 256,
     258, 32767, 65535, 16909060, 1110101197, 2147483647}

\* v is a value of numeric type t (of the wide types, the values that the
\* integers of the model hold)
InRange(v, t) ==
    IF t.width >= 4 THEN t.signed \/ v >= 0
    ELSE IF t.signed
    THEN -(2 ^ (8 * t.width - 1)) <= v /\ v <= 2 ^ (8 * t.width - 1) - 1
    ELSE 0 <= v /\ v <= 2 ^ (8 * t.width) - 1

Ramp(n, from) == [k \in 1..n |-> (from + k) % 256]

BlockValues == {Val(BlockType(n), Ramp(n, f)) : n \in 0..MaxDim, f \in {0, 253}}

FlagValues == {Val(FlagType, [base |-> b]) : b \in {0, 8, 255}}

NumValues ==
    {Val(tv[1], tv[2]) : tv \in {p \in NumTypes \X Candidates : InRange(p[2], p[1])}}

CodecValues == NumValues \cup BlockValues \cup FlagValues

\* the state of a decode target before the call
Default(t) ==
    CASE t.kind = "num" -> Val(t, 0)
      [] t.kind = "block" -> Val(t, [k \in 1..t.width |-> 0])
      [] t.kind = "flag" -> Val(t, FlagDefault)

NoResult == [status |-> "none", kind |-> "none", data |-> <<>>]

NoSeq ==
    /\ xs = <<>> /\ px = 0 /\ temp_vec = <<>> /\ ys = <<>> /\ orig = <<>>
    /\ buffer = <<>> /\ split_buf = <<>> /\ ux = 0 /\ consumed = <<>>
    /\ result = NoResult

NoCodec ==
    /\ self = Val(U8, 0) /\ packed = <<>> /\ data = <<>>
    /\ outcome = [status |-> "none", kind |-> "none", self |-> Val(U8, 0)]

NoGet == [id |-> 0, value |-> FALSE, fresh |-> FALSE]

NoFlag ==
    /\ flag = FlagDefault /\ last = [j \in 0..MaxId |-> FALSE] /\ got = NoGet

---------------------------------------------------------------------------
(* Direct calls of Packable::pack and Packable::unpack on one value. *)

CodecInit ==
    /\ pc = "start"
    /\ litle_endian \in BOOLEAN
    /\ self \in CodecValues
    /\ packed = <<>> /\ data = <<>>
    /\ outcome = [status |-> "none", kind |-> "none", self |-> Default(self.type)]
    /\ NoSeq /\ NoFlag

\* let packed = Packable::pack(&self, litle_endian)
CodecPack ==
    /\ pc = "start"
    /\ packed' = pack(self, litle_endian)
    /\ pc' = "packed"
    /\ UNCHANGED <<litle_endian, self, data, outcome, seqVars, flagVars>>

\* Packable::unpack(&mut target, &mut data, litle_endian), data being the
\* packed bytes cut short, whole, or followed by more bytes
CodecUnpack ==
    /\ pc = "packed"
    /\ \E n \in 0..(Len(packed) + MaxExtra) :
          /\ data' = SubSeq(packed \o [k \in 1..MaxExtra |-> 170], 1, n)
          /\ outcome' = unpack(Default(self.type), data', litle_endian)
    /\ pc' = "unpacked"
    /\ UNCHANGED <<litle_endian, self, packed, seqVars, flagVars>>

CodecNext == CodecPack \/ CodecUnpack

SpecCodec == CodecInit /\ [][CodecNext]_vars

---------------------------------------------------------------------------
(* Flag::set and Flag::get on one Flag, from Flag::default(). *)

FlagInit ==
    /\ pc = "flag"
    /\ litle_endian = TRUE
    /\ NoFlag /\ NoSeq /\ NoCodec

FlagSetStep ==
    /\ pc = "flag"
    /\ \E id \in 0..MaxId, value \in BOOLEAN :
          /\ flag' = FlagSet(flag, id, value)
          /\ last' = [last EXCEPT ![id] = value]
    /\ got' = [got EXCEPT !.fresh = FALSE]
    /\ UNCHANGED <<pc, litle_endian, seqVars, codecVars>>

FlagGetStep ==
    /\ pc = "flag"
    /\ \E id \in 0..MaxId :
          got' = [id |-> id, value |-> FlagGet(flag, id), fresh |-> TRUE]
    /\ UNCHANGED <<pc, litle_endian, flag, last, seqVars, codecVars>>

FlagNext == FlagSetStep \/ FlagGetStep

SpecFlag == FlagInit /\ [][FlagNext]_vars

---------------------------------------------------------------------------
(* pack! and unpack!.  A caller either packs the values xs and hands the   *)
(* packed bytes, followed by a tail, to unpack! with fresh targets of the  *)
(* same types, or hands unpack! a buffer that comes from elsewhere.  The   *)
(* targets of a buffer from elsewhere have the types of SeqTypes: any      *)
(* bytes decode to a value of these that the integers of the model hold.   *)

SeqTypes == {U8, I16, I32, BlockType(MaxDim), FlagType}

SeqCandidates == {-42, 255, 258}

\* the types of the values handed to pack!: those of SeqTypes and some of
\* the wide ones, whose packed bytes decode to values the model holds
PackTypes == SeqTypes \cup {U64, I128, F32}

SeqValues ==
    {x \in NumValues : x.type \in PackTypes /\ x.val \in SeqCandidates}
    \cup {x \in BlockValues : x.type \in PackTypes}
    \cup {x \in FlagValues : x.val.base # 0}

\* the sequences over S of length at most n
SeqsUpTo(S, n) == UNION {[1..k -> S] : k \in 0..n}

RawBytes == {1, 42, 255}

RawBufs == SeqsUpTo(RawBytes, MaxBuf)

Tails == {Ramp(n, 100) : n \in 0..MaxTail}

\* a decode target as the caller declares it, before unpack!
Fresh(t) ==
    CASE t.kind = "num" -> Val(t, 7)
      [] t.kind = "block" -> Val(t, [k \in 1..t.width |-> 7])
      [] t.kind = "flag" -> Val(t, [base |-> 7])

\* the length test with > for >=
LenCheckStrict(buf, sz) == Len(buf) > sz

\* buffer.len() >= size
LenCheck(buf, sz) == Len(buf) >= sz

\* the message with its two arguments exchanged
FormatSwapped(sz, len) == <<"except ", len, " bytes and get ", sz>>

\* format!("except {} bytes and get {}", size, buffer.len())
Format(sz, len) == <<"except ", sz, " bytes and get ", len>>

BufferLengthError(sz, len) ==
    [status |-> "Err", kind |-> "BufferLengthError", data |-> Format(sz, len)]

\* impl From<TryFromSliceError> for PackableError, reached through `?`
FromTryFromSliceError ==
    [status |-> "Err", kind |-> "TryFromSliceError",
     data |-> <<"could not convert slice to array">>]

SeqInit ==
    /\ pc = "pack"
    /\ litle_endian \in BOOLEAN
    /\ xs \in SeqsUpTo(SeqValues, MaxFields)
    /\ px = 1 /\ temp_vec = <<>>
    /\ ys = <<>> /\ orig = <<>> /\ buffer = <<>> /\ split_buf = <<>>
    /\ ux = 0 /\ consumed = <<>> /\ result = NoResult
    /\ NoCodec /\ NoFlag

unpackVars == <<ys, orig, buffer, split_buf, ux, consumed, result>>

\* pack!: temp_vec.extend_from_slice(Packable::pack(&$x, litle_endian).as_slice())
PackField ==
    /\ pc = "pack" /\ px <= Len(xs)
    /\ temp_vec' = extend_from_slice(temp_vec, pack(xs[px], litle_endian))
    /\ px' = px + 1
    /\ UNCHANGED <<pc, litle_endian, xs, unpackVars, codecVars, flagVars>>

\* pack!: the block's value, temp_vec
PackReturn ==
    /\ pc = "pack" /\ px > Len(xs)
    /\ pc' = "packed"
    /\ UNCHANGED <<litle_endian, xs, px, temp_vec, unpackVars, codecVars, flagVars>>

\* the caller starts unpack!(le, &mut buf, y1, .., yn) on buf
Begin(targets, buf) ==
    /\ ys' = targets
    /\ orig' = buf /\ buffer' = buf
    /\ split_buf' = <<>> /\ consumed' = <<>>
    /\ ux' = 1 /\ result' = NoResult
    /\ pc' = "check"
    /\ UNCHANGED <<litle_endian, xs, px, temp_vec, codecVars, flagVars>>

\* buf is the packed record followed by a tail, the targets have the types
\* of the packed values
UnpackPacked ==
    /\ pc = "packed"
    /\ \E t \in Tails :
          Begin([k \in 1..Len(xs) |-> Fresh(xs[k].type)], temp_vec \o t)

\* nothing was packed; buf and the targets' types are the caller's choice
UnpackRaw ==
    /\ pc = "pack" /\ xs = <<>>
    /\ \E tys \in SeqsUpTo(SeqTypes, MaxFields), buf \in RawBufs :
          Begin([k \in 1..Len(tys) |-> Fresh(tys[k])], buf)

\* unpack!, one $x: size, the length test, split_off or the early return
UnpackCheck ==
    /\ pc = "check" /\ ux <= Len(ys)
    /\ LET sz == size(ys[ux]) IN
       IF LenCheck(buffer, sz)
       THEN LET sp == split_off(buffer, sz) IN
            /\ buffer' = sp.front
            /\ split_buf' = sp.tail
            /\ pc' = IF sp.panic THEN "panicked" ELSE "decode"
            /\ UNCHANGED result
       ELSE /\ result' = BufferLengthError(sz, Len(buffer))
            /\ pc' = "returned"
            /\ UNCHANGED <<buffer, split_buf>>
    /\ UNCHANGED <<litle_endian, xs, px, temp_vec, ys, orig, ux, consumed,
                   codecVars, flagVars>>

\* unpack!, one $x: Packable::unpack(&mut $x, buffer, litle_endian)?
UnpackDecode ==
    /\ pc = "decode"
    /\ LET r == unpack(ys[ux], buffer, litle_endian) IN
       /\ ys' = [ys EXCEPT ![ux] = r.self]
       /\ pc' = CASE r.status = "Ok" -> "assign"
                  [] r.status = "Err" -> "returned"
                  [] r.status = "Panic" -> "panicked"
       /\ result' = IF r.status = "Err" THEN FromTryFromSliceError ELSE result
    /\ UNCHANGED <<litle_endian, xs, px, temp_vec, orig, buffer, split_buf, ux,
                   consumed, codecVars, flagVars>>

\* unpack!, one $x: *buffer = split_buf
UnpackAssign ==
    /\ pc = "assign"
    /\ consumed' = consumed \o buffer
    /\ buffer' = split_buf
    /\ split_buf' = <<>>
    /\ ux' = ux + 1
    /\ pc' = "check"
    /\ UNCHANGED <<litle_endian, xs, px, temp_vec, ys, orig, result,
                   codecVars, flagVars>>

\* unpack!: Ok(()) after the last $x
UnpackReturn ==
    /\ pc = "check" /\ ux > Len(ys)
    /\ result' = [status |-> "Ok", kind |-> "none", data |-> <<>>]
    /\ pc' = "returned"
    /\ UNCHANGED <<litle_endian, xs, px, temp_vec, ys, orig, buffer, split_buf,
                   ux, consumed, codecVars, flagVars>>

Init == SeqInit

Next ==
    \/ PackField
    \/ PackReturn
    \/ UnpackPacked
    \/ UnpackRaw
    \/ UnpackCheck
    \/ UnpackDecode
    \/ UnpackAssign
    \/ UnpackReturn

Spec == Init /\ [][Next]_vars

---------------------------------------------------------------------------
(* What the claims speak of. *)

\* the declared size of a field: the byte width of its type
SizeOf(x) == x.type.width

\* size(f1) + ... + size(fk)
RECURSIVE SumSizes(_, _)
SumSizes(fields, k) ==
    IF k = 0 THEN 0 ELSE SumSizes(fields, k - 1) + SizeOf(fields[k])

\* the first field whose size exceeds what is left of b after the fields
\* before it; 0 when every field fits
FirstShort(b, fields) ==
    LET short == {k \in 1..Len(fields) :
                     SizeOf(fields[k]) > Len(b) - SumSizes(fields, k - 1)}
    IN IF short = {} THEN 0 ELSE CHOOSE k \in short : \A j \in short : k <= j

\* the bytes of b that belong to field i
BytesOf(b, fields, i) ==
    SubSeq(b, SumSizes(fields, i - 1) + 1, SumSizes(fields, i))

\* b without its first n bytes
Drop(b, n) == SubSeq(b, n + 1, Len(b))

\* field i as decoding its own bytes of b leaves it
Decoded(b, fields, i, le) ==
    unpack(Fresh(fields[i].type), BytesOf(b, fields, i), le).self

TypesOf(fields) == [k \in 1..Len(fields) |-> fields[k].type]

IsPrefix(p, b) == Len(p) <= Len(b) /\ SubSeq(b, 1, Len(p)) = p

\* pack(f1, le) ++ ... ++ pack(fk, le)
RECURSIVE FlatPack(_, _, _)
FlatPack(fields, k, le) ==
    IF k = 0 THEN <<>>
    ELSE FlatPack(fields, k - 1, le) \o pack(fields[k], le)

InUnpack == pc \in {"check", "decode", "assign", "returned", "panicked"}

\* byte k (0 the least significant) of v's two's-complement pattern
RECURSIVE ByteAt(_, _)
ByteAt(v, k) == IF k = 0 THEN v % 256 ELSE ByteAt(v \div 256, k - 1)

\* the big-endian encodings the repository's tests assert
TestVectors ==
    {<<Val(U8, 42), <<42>>>>,
     <<Val(U16, 42), <<0, 42>>>>,
     <<Val(U32, 42), <<0, 0, 0, 42>>>>,
     <<Val(U64, 42), <<0, 0, 0, 0, 0, 0, 0, 42>>>>,
     <<Val(I8, -42), <<214>>>>,
     <<Val(I16, -42), <<255, 214>>>>,
     <<Val(I32, -42), <<255, 255, 255, 214>>>>,
     <<Val(I64, -42), <<255, 255, 255, 255, 255, 255, 255, 214>>>>,
     <<Val(F32, 1110101197), <<66, 42, 204, 205>>>>}

---------------------------------------------------------------------------
(* The claims. *)

\* C1: when field k is the first whose size exceeds what is left of the
\* buffer, unpack! never goes past field k, leaves field k and every later
\* field as the caller declared them, and returns Err(BufferLengthError)
\* whose message carries size(fk) and the length left, the fields before k
\* holding what their own bytes decode to.
C1_ShortCircuit ==
    LET k == FirstShort(orig, ys) IN
    (InUnpack /\ k # 0) =>
        /\ ux <= k
        /\ \A j \in k..Len(ys) : ys[j] = Fresh(ys[j].type)
        /\ pc = "returned" =>
              /\ result.status = "Err"
              /\ result.kind = "BufferLengthError"
              /\ result.data = <<"except ", SizeOf(ys[k]), " bytes and get ",
                                 Len(orig) - SumSizes(ys, k - 1)>>
              /\ \A j \in 1..(k - 1) : ys[j] = Decoded(orig, ys, j, litle_endian)

C1_Witness ==
    /\ pc = "returned"
    /\ TypesOf(ys) = <<U8, I16>>
    /\ orig = <<42, 255>>
    /\ ys[1].val = 42
    /\ result.data = <<"except ", 2, " bytes and get ", 1>>

\* C2: when the buffer holds at least size(f1)+...+size(fn) bytes, unpack!
\* returns Ok, every field holds what its own bytes of the buffer decode
\* to, and the caller's buffer holds the bytes after the last field.
C2_SequentialDecode ==
    (pc = "returned" /\ Len(orig) >= SumSizes(ys, Len(ys))) =>
        /\ result.status = "Ok"
        /\ \A i \in 1..Len(ys) : ys[i] = Decoded(orig, ys, i, litle_endian)
        /\ buffer = Drop(orig, SumSizes(ys, Len(ys)))

C2_Witness ==
    /\ pc = "returned"
    /\ result.status = "Ok"
    /\ TypesOf(ys) = <<I16, U8>>
    /\ orig = <<255, 1, 42, 1>>
    /\ ~litle_endian
    /\ ys[1].val = -255 /\ ys[2].val = 42
    /\ buffer = <<1>>

\* C3: unpack of a numeric target on the bytes pack gave for v, under the
\* same byte order, returns Ok and leaves the target equal to v.
C3_PrimitiveRoundTrip ==
    (pc = "unpacked" /\ self.type \in NumTypes /\ data = packed) =>
        /\ outcome.status = "Ok"
        /\ outcome.self = self

C3_Witness ==
    /\ pc = "unpacked"
    /\ self = Val(I64, -16909060)
    /\ ~litle_endian
    /\ data = packed
    /\ outcome.self = self

\* C4: pack of a numeric value gives size() bytes, byte k of the value's
\* bit pattern at place k counted from the front (little-endian) or from
\* the back (big-endian), and the encodings the tests assert.
C4_ByteLayout ==
    (pc # "start" /\ self.type \in NumTypes) =>
        LET w == self.type.width IN
        /\ Len(packed) = w
        /\ Len(packed) = size(self)
        /\ \A k \in 0..(w - 1) :
              packed[IF litle_endian THEN k + 1 ELSE w - k] = ByteAt(self.val, k)
        /\ \A tv \in TestVectors :
              self = tv[1] =>
                  packed = IF litle_endian THEN Reverse(tv[2]) ELSE tv[2]

C4_Witness ==
    /\ pc = "packed"
    /\ self = Val(I32, -42)
    /\ ~litle_endian
    /\ packed = <<255, 255, 255, 214>>

\* C5: pack! returns pack(x1, le) ++ ... ++ pack(xn, le), in argument
\* order, of length size(x1)+...+size(xn); while it runs, temp_vec holds
\* the encodings of the values already visited.
C5_PackConcat ==
    /\ pc = "pack" => temp_vec = FlatPack(xs, px - 1, litle_endian)
    /\ pc # "pack" =>
          /\ temp_vec = FlatPack(xs, Len(xs), litle_endian)
          /\ Len(temp_vec) = SumSizes(xs, Len(xs))

C5_Witness ==
    /\ pc = "packed"
    /\ litle_endian
    /\ xs = <<Val(I16, 258), Val(BlockType(MaxDim), Ramp(MaxDim, 253))>>
    /\ temp_vec = <<2, 1>> \o Ramp(MaxDim, 253)

\* C6: unpack! on pack!(le, x1..xn) ++ T, with targets of the types of
\* x1..xn and the same le, returns Ok, leaves every target equal to its x,
\* and leaves T in the buffer.
C6_RecordRoundTrip ==
    (/\ pc = "returned"
     /\ px > Len(xs)
     /\ TypesOf(ys) = TypesOf(xs)
     /\ IsPrefix(temp_vec, orig)) =>
        /\ result.status = "Ok"
        /\ ys = xs
        /\ buffer = Drop(orig, Len(temp_vec))

C6_Witness ==
    /\ pc = "returned"
    /\ xs = <<Val(FlagType, [base |-> 8]), Val(I32, -42)>>
    /\ ys = xs
    /\ ~litle_endian
    /\ orig = <<8, 255, 255, 255, 214, 101>>
    /\ buffer = <<101>>

\* C7: Packable::unpack called directly with fewer than size() bytes
\* returns Err (TryFromSliceError for a numeric type and Flag,
\* BufferLengthError for a byte block) and does not panic.
C7_DirectUnpackRecoverable ==
    (pc = "unpacked" /\ Len(data) < SizeOf(self)) =>
        /\ outcome.status = "Err"
        /\ outcome.kind = IF self.type.kind = "block" THEN "BufferLengthError"
                          ELSE "TryFromSliceError"

\* What the code does where C7 fails: a direct unpack on fewer than size()
\* bytes panics at the index, whatever the implementer, and leaves the
\* target as it was; with size() bytes or more it returns Ok.
DirectUnpackOutcome ==
    pc = "unpacked" =>
        IF Len(data) < SizeOf(self)
        THEN outcome.status = "Panic" /\ outcome.self = Default(self.type)
        ELSE outcome.status = "Ok"

\* C8: from Flag::default() and after any sets with ids in 0..7, get(j)
\* is the value most recently set for j, or false if j was never set.
C8_FlagBitIndependence ==
    pc = "flag" =>
        /\ \A j \in 0..MaxId : FlagGet(flag, j) = last[j]
        /\ got.fresh => got.value = last[got.id]

C8_Witness ==
    /\ pc = "flag"
    /\ last = [j \in 0..MaxId |-> j \in {3, 7}]
    /\ flag.base = 136
    /\ got = [id |-> 3, value |-> TRUE, fresh |-> TRUE]

\* C9: under unpack!, a field's Packable::unpack runs on a buffer of
\* exactly size(field) bytes and returns Ok; unpack! never panics, and the
\* only error it returns is BufferLengthError.
C9_NoTruncatedConversion ==
    InUnpack =>
        /\ pc # "panicked"
        /\ pc = "decode" =>
              /\ Len(buffer) = SizeOf(ys[ux])
              /\ unpack(ys[ux], buffer, litle_endian).status = "Ok"
        /\ result.status = "Err" => result.kind = "BufferLengthError"

C9_Witness ==
    /\ pc = "decode"
    /\ ux = 2
    /\ ys[ux].type = I32
    /\ Len(buffer) = 4
    /\ split_buf # <<>>

\* C10: between two fields of unpack!, and when it has returned, the bytes
\* consumed followed by the buffer are the original buffer (inside a
\* field's step: followed by the buffer and the tail split off), the bytes
\* consumed being those of the fields decoded; so a failure at field k
\* leaves the buffer holding the original without the bytes of the fields
\* before k.
C10_BufferConservation ==
    InUnpack =>
        /\ consumed \o buffer \o split_buf = orig
        /\ pc \in {"check", "returned"} => consumed \o buffer = orig
        /\ pc \in {"check", "returned"} => Len(consumed) = SumSizes(ys, ux - 1)
        /\ (pc = "returned" /\ result.status = "Err") =>
              /\ ux = FirstShort(orig, ys)
              /\ buffer = Drop(orig, SumSizes(ys, ux - 1))

C10_Witness ==
    /\ pc = "returned"
    /\ result.status = "Err"
    /\ TypesOf(ys) = <<BlockType(MaxDim), I32>>
    /\ Len(orig) = MaxDim + 2
    /\ buffer = Drop(orig, MaxDim)
    /\ buffer # <<>>

===========================================================================
